---- MODULE Spec2Model ----
(***************************************************************************)
(* The JNI binding layer of h3-java (src/main/c/h3-java/src/jniapi.c).     *)
(*                                                                         *)
(* Every native method is translated into the sequence of JNI and engine   *)
(* calls it makes (its path), as a function of what the environment        *)
(* answers: the lengths of the caller's arrays, which pins and             *)
(* allocations fail, the error code the engine returns and how much the    *)
(* engine writes.  A thread executes the path of its current call one      *)
(* call at a time; the effect of a call is computed when it is executed,   *)
(* from the thread's JNI state and the process-wide class cache.           *)
(***************************************************************************)
EXTENDS Integers, Sequences, FiniteSets, TLC

VARIABLES
    lib,        \* "unloaded" | "loaded" | "failed": the library's life cycle
    statics,    \* the static jclass cache: class name -> "null" | "ref" | "deleted"
    th          \* per thread: the native call in progress, its log and pending exception

vars == <<lib, statics, th>>

(***************************************************************************)
(* Bounds of the model.                                                    *)
(***************************************************************************)
MaxLen == 3
MaxErr == 2
MaxOut == 4
MaxK == 2
MaxCellRes == 1
MaxFail == 10
NThreads == 2

(***************************************************************************)
(* Program constants.                                                      *)
(***************************************************************************)
MAX_HEX_EDGES == 6
E_SUCCESS == 0
E_MEMORY_ALLOC == 13
NumVertexes == 6
MinCoords == 2
EdgeCells == 2

Range(lo, hi) == {i \in lo..hi : TRUE}

Min(a, b) == IF a < b THEN a ELSE b

(***************************************************************************)
(* Events: one JNI call, engine call, buffer write or helper call.         *)
(*   op   the call                                                         *)
(*   fn   the engine function (Engine)                                     *)
(*   arr  the array argument the call is about                             *)
(*   x    Get: the pointer returned (0 the base, -1 NULL); Release: the    *)
(*        pointer passed; Engine, ThrowH3: the error code                  *)
(*   y    Engine: the output bound passed (-1: none is passed)             *)
(*   w    the indices of arr written                                       *)
(*   out  Engine: the cells returned                                       *)
(***************************************************************************)
NULL == -1

Ev(op, fn, arr, x, y, w, out) ==
    [op |-> op, fn |-> fn, arr |-> arr, x |-> x, y |-> y, w |-> w, out |-> out]

GetArrayLength(arr) == Ev("GetArrayLength", "", arr, 0, 0, {}, {})

GetArrayElements(arr, in) ==
    Ev("Get", "", arr, IF arr \in in.fail THEN NULL ELSE 0, 0, {}, {})

ReleaseArrayElements(arr, ptr) == Ev("Release", "", arr, ptr, 0, {}, {})

EngineCall(fn, arr, err, bound, w, out) == Ev("Engine", fn, arr, err, bound, w, out)

WriteElements(arr, w) == Ev("Write", "", arr, 0, 0, w, {})

ThrowH3Exception(err) == Ev("ThrowH3Exception", "", "", err, 0, {}, {})

ThrowOutOfMemoryError == Ev("ThrowOutOfMemoryError", "", "", 0, 0, {}, {})

(***************************************************************************)
(* The pointer a successful pin of arr returned in this path.              *)
(***************************************************************************)
Pinned(arr, in) == IF arr \in in.fail THEN NULL ELSE 0

(***************************************************************************)
(* if (err) ThrowH3Exception(env, err);                                    *)
(***************************************************************************)
ThrowIfErr_NoTest(err) == <<ThrowH3Exception(err)>>

ThrowIfErr(err) == IF err # E_SUCCESS THEN <<ThrowH3Exception(err)>> ELSE <<>>

(***************************************************************************)
(* The engine (the H3 core library the binding calls).  Its functions      *)
(* receive a raw pointer: only where the binding passes a size does the    *)
(* engine know the capacity of the buffer it writes.                       *)
(***************************************************************************)
E_FAILED == 1
E_DOMAIN == 2
E_CELL_INVALID == 5
E_RES_DOMAIN == 4
E_MEMORY_BOUNDS == 14
MAX_H3_RES == 15
MAX_CELL_BNDRY_VERTS == 10
res0CellCount == 122
pentagonCount == 12

\* An engine function the model does not look into: it returns in.err and
\* writes in.n elements, whatever the capacity of the buffer.
EngineOracle(fn, arr, in) ==
    EngineCall(fn, arr, in.err, NULL, Range(0, in.n - 1), {})

\* --- grid traversal: cells of one resolution as axial hexagon coordinates,
\* with a pentagon at the centre whose deleted direction has no neighbour.
Pentagon == <<0, 0>>
DeletedDir == <<1, 0>>
Dirs == {<<1, 0>>, <<1, -1>>, <<0, -1>>, <<-1, 0>>, <<-1, 1>>, <<0, 1>>}
InvalidCell == <<99, 99>>

Abs(i) == IF i < 0 THEN -i ELSE i

HexDistance(a, b) ==
    (Abs(a[1] - b[1]) + Abs(a[2] - b[2]) + Abs(a[1] + a[2] - b[1] - b[2])) \div 2

Neighbors(c) ==
    {<<c[1] + d[1], c[2] + d[2]>> : d \in {e \in Dirs : ~(c = Pentagon /\ e = DeletedDir)}}

RECURSIVE DiskCells(_, _)
DiskCells(origin, k) ==
    IF k <= 0 THEN {origin}
    ELSE LET inner == DiskCells(origin, k - 1)
         IN  inner \cup UNION {Neighbors(c) : c \in inner}

Engine_maxGridDiskSize(k) == 3 * k * k + 3 * k + 1

\* gridDisk(origin, k, out): out is taken to hold maxGridDiskSize(k) cells;
\* every slot of it is written (the cells of the disk, the rest zero).
Engine_gridDisk(origin, k) ==
    IF k < 0 THEN EngineCall("gridDisk", "results", E_DOMAIN, NULL, {}, {})
    ELSE IF origin = InvalidCell
    THEN EngineCall("gridDisk", "results", E_CELL_INVALID, NULL, {}, {})
    ELSE EngineCall("gridDisk", "results", E_SUCCESS, NULL,
                    Range(0, Engine_maxGridDiskSize(k) - 1), DiskCells(origin, k))

\* --- grid distance: b is projected into the local IJ coordinates anchored
\* at a; the projection fails for cells too far apart and across the
\* pentagon's deleted direction.
LocalRange == 3

LocalIj(origin, c) == <<c[1] - origin[1], c[2] - origin[2]>>

AcrossDeletedDir(origin, c) ==
    /\ origin = Pentagon
    /\ \E n \in 1..LocalRange :
          c = <<origin[1] + n * DeletedDir[1], origin[2] + n * DeletedDir[2]>>

\* gridDistance(a, b, &distance): the distance between the projections of a
\* and of b; out holds the distance.
Engine_gridDistance(a, b) ==
    IF a = InvalidCell \/ b = InvalidCell
    THEN EngineCall("gridDistance", "", E_CELL_INVALID, NULL, {}, {})
    ELSE IF AcrossDeletedDir(a, b)
            \/ HexDistance(LocalIj(a, a), LocalIj(a, b)) > LocalRange
    THEN EngineCall("gridDistance", "", E_FAILED, NULL, {}, {})
    ELSE EngineCall("gridDistance", "", E_SUCCESS, NULL, {},
                    {HexDistance(LocalIj(a, a), LocalIj(a, b))})

\* --- hierarchy: a cell index as its base cell and digits (one per resolution).
PentagonBaseCell == 4
K_AXES_DIGIT == 1
Digits == 0..6

Resolution(idx) == Len(idx.digits)

AllZero(ds) == \A i \in 1..Len(ds) : ds[i] = 0

\* The children one resolution finer: a pentagon has no child on the deleted
\* (K) axis.
ChildDigits(idx) ==
    IF idx.bc = PentagonBaseCell /\ AllZero(idx.digits)
    THEN Digits \ {K_AXES_DIGIT} ELSE Digits

ChildIndex_Prepend(idx, d) == [bc |-> idx.bc, digits |-> <<d>> \o idx.digits]

ChildIndex(idx, d) == [bc |-> idx.bc, digits |-> Append(idx.digits, d)]

RECURSIVE Children(_, _)
Children(idx, childRes) ==
    IF childRes <= Resolution(idx) THEN {idx}
    ELSE UNION {Children(ChildIndex(idx, d), childRes) : d \in ChildDigits(idx)}

cellToParent(idx, parentRes) ==
    [bc |-> idx.bc, digits |-> SubSeq(idx.digits, 1, parentRes)]

Engine_cellToChildren(idx, childRes) ==
    IF childRes < Resolution(idx) \/ childRes > MAX_H3_RES
    THEN EngineCall("cellToChildren", "results", E_RES_DOMAIN, NULL, {}, {})
    ELSE LET cs == Children(idx, childRes)
         IN  EngineCall("cellToChildren", "results", E_SUCCESS, NULL,
                        Range(0, Cardinality(cs) - 1), cs)

\* --- bounded engine functions: the binding passes the capacity, and the
\* engine fails rather than write past it.
Engine_bounded(fn, arr, size, in) ==
    IF in.n > size
    THEN EngineCall(fn, arr, E_MEMORY_BOUNDS, size, Range(0, size - 1), {})
    ELSE EngineCall(fn, arr, in.err, size, Range(0, in.n - 1), {})

\* --- compaction: the full set of children of one parent is replaced by the
\* parent (six children for a pentagon, seven otherwise), repeatedly.
E_RES_MISMATCH == 12

Parent(idx) == cellToParent(idx, Resolution(idx) - 1)

Siblings_AllDigits(p) == {ChildIndex(p, d) : d \in Digits}

Siblings(p) == {ChildIndex(p, d) : d \in ChildDigits(p)}

Mergeable(S) ==
    {p \in {Parent(c) : c \in {x \in S : Resolution(x) > 0}} : Siblings(p) \subseteq S}

RECURSIVE CompactSet(_)
CompactSet(S) ==
    IF Mergeable(S) = {} THEN S
    ELSE LET p == CHOOSE q \in Mergeable(S) : TRUE
         IN  CompactSet((S \ Siblings(p)) \cup {p})

\* compactCells(h3Set, compactedSet, numHexes): in.err is a failure of the
\* engine's own allocations.
Engine_compactCells(S, in) ==
    IF in.err # E_SUCCESS
    THEN EngineCall("compactCells", "results", in.err, NULL, {}, {})
    ELSE EngineCall("compactCells", "results", E_SUCCESS, NULL,
                    Range(0, Cardinality(CompactSet(S)) - 1), CompactSet(S))

\* --- expansion: every cell is replaced by its descendants at resolution res.
UncompactSet(S, res) == UNION {Children(c, res) : c \in S}

RECURSIVE UncompactCount(_, _)
UncompactCount(S, res) ==
    IF S = {} THEN 0
    ELSE LET c == CHOOSE x \in S : TRUE
         IN  Cardinality(Children(c, res)) + UncompactCount(S \ {c}, res)

\* uncompactCells(compactedSet, numHexes, outSet, maxHexes, res)
Engine_uncompactCells(S, res, maxHexes) ==
    IF \E c \in S : Resolution(c) > res
    THEN EngineCall("uncompactCells", "results", E_RES_MISMATCH, maxHexes, {}, {})
    ELSE IF UncompactCount(S, res) > maxHexes
    THEN EngineCall("uncompactCells", "results", E_MEMORY_BOUNDS, maxHexes,
                    Range(0, maxHexes - 1), {})
    ELSE EngineCall("uncompactCells", "results", E_SUCCESS, maxHexes,
                    Range(0, UncompactCount(S, res) - 1), UncompactSet(S, res))

\* --- fixed-size outputs.
Engine_fixed(fn, arr, count, in) ==
    EngineCall(fn, arr, in.err, NULL, Range(0, count - 1), {})

(***************************************************************************)
(* The native methods.  Each operator gives the calls the method makes,    *)
(* in order, for the environment's answers in.                             *)
(***************************************************************************)

\* Methods of the form: err = f(args, &out); if (err) throw; return out.
ScalarFallibleMethods ==
    {"latLngToCell", "maxGridDiskSize", "localIjToCell",
     "gridPathCellsSize", "cellToChildrenSize", "cellToCenterChild",
     "cellAreaRads2", "cellAreaKm2", "cellAreaM2", "edgeLengthRads",
     "edgeLengthKm", "edgeLengthM", "getHexagonAreaAvgKm2",
     "getHexagonAreaAvgM2", "getHexagonEdgeLengthAvgKm",
     "getHexagonEdgeLengthAvgM", "getNumCells", "areNeighborCells",
     "cellsToDirectedEdge", "getDirectedEdgeOrigin",
     "getDirectedEdgeDestination", "maxFaceCount", "cellToVertex",
     "cellToChildPos", "childPosToCell"}

ScalarFallible(fn, in) ==
    <<EngineOracle(fn, "", in)>> \o ThrowIfErr(in.err)

NativeMethods_gridDistance_SameCell(in) ==
    <<Engine_gridDistance(in.cell, in.cell)>>
        \o ThrowIfErr(Engine_gridDistance(in.cell, in.cell).x)

\* err = gridDistance(a, b, &distance); if (err) throw; return distance.
NativeMethods_gridDistance(in) ==
    <<Engine_gridDistance(in.cell, in.cell2)>>
        \o ThrowIfErr(Engine_gridDistance(in.cell, in.cell2).x)

\* Methods that only return what the engine returns.
InfallibleMethods ==
    {"isValidCell", "isValidIndex", "getBaseCellNumber", "isPentagon",
     "greatCircleDistanceRads", "greatCircleDistanceKm",
     "greatCircleDistanceM", "isValidDirectedEdge", "isValidVertex"}

Infallible(fn, in) == <<EngineCall(fn, "", E_SUCCESS, NULL, {}, {})>>

\* Pin one array; without the pin, ThrowOutOfMemoryError is all that follows.
PinThen(arr, in, body) ==
    <<GetArrayElements(arr, in)>>
        \o (IF Pinned(arr, in) # NULL THEN body ELSE <<ThrowOutOfMemoryError>>)

NativeMethods_constructCell(in) ==
    PinThen("digits", in,
            <<EngineCall("constructCell", "", in.err, NULL, {}, {}),
              ReleaseArrayElements("digits", Pinned("digits", in))>>
                \o ThrowIfErr(in.err))

\* err = f(h3, &out); then the two values are copied when sz >= 2.
PairOut(fn, arr, in) ==
    <<EngineCall(fn, "", in.err, NULL, {}, {})>> \o
    (IF in.err # E_SUCCESS THEN <<ThrowH3Exception(in.err)>>
     ELSE <<GetArrayLength(arr), GetArrayElements(arr, in)>> \o
          (IF Pinned(arr, in) # NULL
           THEN (IF in.len >= MinCoords
                 THEN <<WriteElements(arr, {0, 1})>> ELSE <<>>)
                \o <<ReleaseArrayElements(arr, Pinned(arr, in))>>
           ELSE <<ThrowOutOfMemoryError>>))

\* for (i = 0; i < sz && i < numVerts * 2; i += 2) { verts[i], verts[i + 1] }
RECURSIVE BoundaryWrites(_, _, _)
BoundaryWrites(i, sz, numVerts) ==
    IF i < sz /\ i < numVerts * 2
    THEN {i, i + 1} \cup BoundaryWrites(i + 2, sz, numVerts)
    ELSE {}

BoundaryOut(fn, in) ==
    <<EngineCall(fn, "", in.err, NULL, {}, {})>> \o
    (IF in.err # E_SUCCESS THEN <<ThrowH3Exception(in.err)>>
     ELSE <<GetArrayLength("verts"), GetArrayElements("verts", in)>> \o
          (IF Pinned("verts", in) # NULL
           THEN <<WriteElements("verts", BoundaryWrites(0, in.len, in.n)),
                  ReleaseArrayElements("verts", Pinned("verts", in))>>
           ELSE <<ThrowOutOfMemoryError>>))

NativeMethods_cellToLatLng(in) == PairOut("cellToLatLng", "verts", in)

NativeMethods_cellToLocalIj(in) == PairOut("cellToLocalIj", "coords", in)

NativeMethods_vertexToLatLng(in) == PairOut("vertexToLatLng", "latLng", in)

NativeMethods_cellToBoundary(in) == BoundaryOut("cellToBoundary", in)

NativeMethods_directedEdgeToBoundary(in) == BoundaryOut("directedEdgeToBoundary", in)

\* pin results; err = f(args, resultsElements); release; if (err) throw.
ResultsCall(engine, in) ==
    PinThen("results", in,
            <<engine, ReleaseArrayElements("results", Pinned("results", in))>>
                \o ThrowIfErr(engine.x))

NativeMethods_gridDisk_WrongK(in) ==
    ResultsCall(Engine_gridDisk(in.cell, in.k + 1), in)

NativeMethods_gridDisk(in) == ResultsCall(Engine_gridDisk(in.cell, in.k), in)

NativeMethods_gridDiskDistances(in) ==
    LET resultsElements == Pinned("results", in)
        distancesElements == Pinned("distances", in)
        isOom == resultsElements = NULL \/ distancesElements = NULL
    IN  <<GetArrayElements("results", in)>> \o
        (IF resultsElements # NULL
         THEN <<GetArrayElements("distances", in)>> \o
              (IF distancesElements # NULL
               THEN <<EngineOracle("gridDiskDistances", "results", in),
                      ReleaseArrayElements("results", resultsElements)>>
               ELSE <<>>)
              \o <<ReleaseArrayElements("distances", distancesElements)>>
         ELSE <<>>)
        \o (IF isOom THEN <<ThrowOutOfMemoryError>> ELSE ThrowIfErr(in.err))

NativeMethods_gridDiskUnsafe(in) ==
    ResultsCall(EngineOracle("gridDiskUnsafe", "results", in), in)

NativeMethods_gridRing(in) ==
    ResultsCall(EngineOracle("gridRing", "results", in), in)

NativeMethods_gridRingUnsafe(in) ==
    ResultsCall(EngineOracle("gridRingUnsafe", "results", in), in)

NativeMethods_gridPathCells(in) ==
    ResultsCall(EngineOracle("gridPathCells", "results", in), in)

NativeMethods_cellToChildren(in) ==
    ResultsCall(Engine_cellToChildren(in.idx, in.k), in)

\* size < count: throw before anything is pinned.
SizeCheckedFirst(fn, count, in) ==
    <<GetArrayLength("results")>> \o
    (IF in.len < count THEN <<ThrowOutOfMemoryError>>
     ELSE ResultsCall(Engine_fixed(fn, "results", count, in), in))

NativeMethods_getRes0Cells(in) == SizeCheckedFirst("getRes0Cells", res0CellCount, in)

NativeMethods_getPentagons(in) == SizeCheckedFirst("getPentagons", pentagonCount, in)

\* pin, then sz >= count decides between the engine call and the error; the
\* release follows either.
PinnedSizeChecked_CallsEngine(fn, count, in) ==
    <<GetArrayLength("results")>> \o
    PinThen("results", in,
            (IF in.len >= count THEN <<>> ELSE <<ThrowOutOfMemoryError>>)
            \o <<Engine_fixed(fn, "results", count, in)>> \o ThrowIfErr(in.err)
            \o <<ReleaseArrayElements("results", Pinned("results", in))>>)

PinnedSizeChecked(fn, count, in) ==
    <<GetArrayLength("results")>> \o
    PinThen("results", in,
            (IF in.len >= count
             THEN <<Engine_fixed(fn, "results", count, in)>> \o ThrowIfErr(in.err)
             ELSE <<ThrowOutOfMemoryError>>)
            \o <<ReleaseArrayElements("results", Pinned("results", in))>>)

NativeMethods_directedEdgeToCells(in) ==
    PinnedSizeChecked("directedEdgeToCells", EdgeCells, in)

NativeMethods_originToDirectedEdges(in) ==
    PinnedSizeChecked("originToDirectedEdges", MAX_HEX_EDGES, in)

NativeMethods_getIcosahedronFaces(in) ==
    PinThen("faces", in,
            <<EngineOracle("getIcosahedronFaces", "faces", in),
              ReleaseArrayElements("faces", Pinned("faces", in))>>
                \o ThrowIfErr(in.err))

\* vertexesElements != NULL && sz >= 6
VertexesUsable_NoSize(in) == Pinned("vertexes", in) # NULL

VertexesUsable(in) == Pinned("vertexes", in) # NULL /\ in.len >= NumVertexes

NativeMethods_cellToVertexes(in) ==
    <<GetArrayLength("vertexes"), GetArrayElements("vertexes", in)>> \o
    (IF VertexesUsable(in)
     THEN <<Engine_fixed("cellToVertexes", "vertexes", NumVertexes, in),
            ReleaseArrayElements("vertexes", Pinned("vertexes", in))>>
              \o ThrowIfErr(in.err)
     ELSE <<ThrowOutOfMemoryError>>)

\* compactCells(h3Elements, resultsElements, numHexes): in.set is the content
\* of h3; the engine is given its length and no capacity of results.
NativeMethods_compactCells(in) ==
    PinThen("h3", in,
        <<GetArrayElements("results", in)>> \o
        (IF Pinned("results", in) # NULL
         THEN <<GetArrayLength("h3"),
                Engine_compactCells(in.set, in),
                ReleaseArrayElements("h3", Pinned("h3", in)),
                ReleaseArrayElements("results", Pinned("results", in))>>
              \o ThrowIfErr(in.err)
         ELSE <<ReleaseArrayElements("h3", Pinned("h3", in)),
                ThrowOutOfMemoryError>>))

NativeMethods_uncompactCellsSize(in) ==
    <<GetArrayLength("h3")>> \o
    PinThen("h3", in,
        <<EngineCall("uncompactCellsSize", "", in.err, NULL, {}, {}),
          ReleaseArrayElements("h3", Pinned("h3", in))>> \o ThrowIfErr(in.err))

NativeMethods_uncompactCells(in) ==
    <<GetArrayLength("h3")>> \o
    PinThen("h3", in,
        <<GetArrayLength("results"), GetArrayElements("results", in)>> \o
        (IF Pinned("results", in) # NULL
         THEN LET engine == Engine_uncompactCells(in.set, in.k, in.len)
              IN  <<engine,
                    ReleaseArrayElements("h3", Pinned("h3", in)),
                    ReleaseArrayElements("results", Pinned("results", in))>>
                  \o ThrowIfErr(engine.x)
         ELSE <<ReleaseArrayElements("h3", Pinned("h3", in)),
                ThrowOutOfMemoryError>>))

(***************************************************************************)
(* CreateGeoPolygon / DestroyGeoPolygon.  in.len2 is the length of verts,  *)
(* in.holes the elements of holeSizes, in.hvLen the length of holeVerts.   *)
(***************************************************************************)
calloc(in) == Ev("calloc", "", "holes", IF "calloc" \in in.fail THEN NULL ELSE 0, Len(in.holes), {}, {})

free_Leaked == Ev("leak", "", "holes", 0, 0, {}, {})

free == Ev("free", "", "holes", 0, 0, {}, {})

RECURSIVE HoleOffset_CountsVerts(_, _)
HoleOffset_CountsVerts(holeSizes, i) ==
    IF i <= 1 THEN 0
    ELSE HoleOffset_CountsVerts(holeSizes, i - 1) + holeSizes[i - 1] \div 2

RECURSIVE HoleOffset(_, _)
HoleOffset(holeSizes, i) ==
    IF i <= 1 THEN 0 ELSE HoleOffset(holeSizes, i - 1) + holeSizes[i - 1]

\* holes[i].numVerts = holeSizesElements[i] / 2;
\* holes[i].verts = holeVertsElements + offset; offset += holeSizesElements[i];
HoleLayout(holeSizes) ==
    [i \in 1..Len(holeSizes) |->
        [numVerts |-> holeSizes[i] \div 2, verts |-> HoleOffset(holeSizes, i)]]

CreateGeoPolygon(in) ==
    LET numVerts == in.len2 \div 2
        verts == Pinned("verts", in)
        numHoles == Len(in.holes)
        holesPtr == IF "calloc" \in in.fail THEN NULL ELSE 0
        holeSizesElements == Pinned("holeSizes", in)
        holeVertsElements == Pinned("holeVerts", in)
        polygon == [numVerts |-> numVerts, verts |-> verts, numHoles |-> numHoles,
                    holes |-> HoleLayout(in.holes)]
        failed(evs) == [err |-> E_MEMORY_ALLOC, polygon |-> polygon, evs |-> evs]
        head == <<GetArrayLength("verts"), GetArrayElements("verts", in)>>
    IN  IF verts = NULL
        THEN failed(head \o <<ThrowOutOfMemoryError>>)
        ELSE IF numHoles <= 0
        THEN [err |-> E_SUCCESS, polygon |-> polygon,
              evs |-> head \o <<GetArrayLength("holeSizes")>>]
        ELSE IF holesPtr = NULL
        THEN failed(head \o <<GetArrayLength("holeSizes"), calloc(in),
                              ReleaseArrayElements("verts", verts),
                              ThrowOutOfMemoryError>>)
        ELSE IF holeSizesElements = NULL
        THEN failed(head \o <<GetArrayLength("holeSizes"), calloc(in),
                              GetArrayElements("holeSizes", in),
                              ReleaseArrayElements("verts", verts),
                              free, ThrowOutOfMemoryError>>)
        ELSE IF holeVertsElements = NULL
        THEN failed(head \o <<GetArrayLength("holeSizes"), calloc(in),
                              GetArrayElements("holeSizes", in),
                              GetArrayElements("holeVerts", in),
                              ReleaseArrayElements("verts", verts),
                              free,
                              ReleaseArrayElements("holeSizes", holeSizesElements),
                              ThrowOutOfMemoryError>>)
        ELSE [err |-> E_SUCCESS, polygon |-> polygon,
              evs |-> head \o <<GetArrayLength("holeSizes"), calloc(in),
                                GetArrayElements("holeSizes", in),
                                GetArrayElements("holeVerts", in),
                                ReleaseArrayElements("holeSizes", holeSizesElements)>>]

DestroyGeoPolygon_LastHole(polygon) ==
    <<ReleaseArrayElements("verts", polygon.verts)>> \o
    (IF polygon.numHoles > 0
     THEN <<ReleaseArrayElements("holeVerts", polygon.holes[polygon.numHoles].verts),
            free>>
     ELSE <<>>)

DestroyGeoPolygon(polygon) ==
    <<ReleaseArrayElements("verts", polygon.verts)>> \o
    (IF polygon.numHoles > 0
     THEN <<ReleaseArrayElements("holeVerts", polygon.holes[1].verts), free>>
     ELSE <<>>)

MaxPolygonSize(fn, in) ==
    LET c == CreateGeoPolygon(in)
    IN  c.evs \o
        (IF c.err # E_SUCCESS THEN <<>>
         ELSE <<EngineCall(fn, "", in.err, NULL, {}, {})>>
              \o DestroyGeoPolygon(c.polygon) \o ThrowIfErr(in.err))

NativeMethods_maxPolygonToCellsSize(in) == MaxPolygonSize("maxPolygonToCellsSize", in)

NativeMethods_maxPolygonToCellsSizeExperimental(in) ==
    MaxPolygonSize("maxPolygonToCellsSizeExperimental", in)

NativeMethods_polygonToCells_ThrowFirst(in) ==
    LET c == CreateGeoPolygon(in)
        resultsElements == Pinned("results", in)
        err == IF resultsElements # NULL THEN in.err ELSE E_SUCCESS
    IN  c.evs \o
        (IF c.err # E_SUCCESS THEN <<>>
         ELSE <<GetArrayElements("results", in)>> \o
              (IF resultsElements # NULL
               THEN <<EngineOracle("polygonToCells", "results", in),
                      ReleaseArrayElements("results", resultsElements)>>
               ELSE <<ThrowOutOfMemoryError>>)
              \o ThrowIfErr(err) \o DestroyGeoPolygon(c.polygon))

NativeMethods_polygonToCells(in) ==
    LET c == CreateGeoPolygon(in)
        resultsElements == Pinned("results", in)
        err == IF resultsElements # NULL THEN in.err ELSE E_SUCCESS
    IN  c.evs \o
        (IF c.err # E_SUCCESS THEN <<>>
         ELSE <<GetArrayElements("results", in)>> \o
              (IF resultsElements # NULL
               THEN <<EngineOracle("polygonToCells", "results", in),
                      ReleaseArrayElements("results", resultsElements)>>
               ELSE <<ThrowOutOfMemoryError>>)
              \o DestroyGeoPolygon(c.polygon) \o ThrowIfErr(err))

\* jsize resultsSize = GetArrayLength(env, results);
ResultsSize_OfVerts(in) == in.len2

ResultsSize(in) == in.len

NativeMethods_polygonToCellsExperimental_ErrAnyway(in) ==
    LET c == CreateGeoPolygon(in)
        resultsElements == Pinned("results", in)
        resultsSize == ResultsSize(in)
        engine == Engine_bounded("polygonToCellsExperimental", "results", resultsSize, in)
    IN  c.evs \o
        (IF c.err # E_SUCCESS THEN <<>>
         ELSE <<GetArrayElements("results", in), GetArrayLength("results")>> \o
              (IF resultsElements # NULL
               THEN <<engine, ReleaseArrayElements("results", resultsElements)>>
               ELSE <<ThrowOutOfMemoryError>>)
              \o DestroyGeoPolygon(c.polygon) \o ThrowIfErr(engine.x))

NativeMethods_polygonToCellsExperimental(in) ==
    LET c == CreateGeoPolygon(in)
        resultsElements == Pinned("results", in)
        resultsSize == ResultsSize(in)
        engine == Engine_bounded("polygonToCellsExperimental", "results", resultsSize, in)
        err == IF resultsElements # NULL THEN engine.x ELSE E_SUCCESS
    IN  c.evs \o
        (IF c.err # E_SUCCESS THEN <<>>
         ELSE <<GetArrayElements("results", in), GetArrayLength("results")>> \o
              (IF resultsElements # NULL
               THEN <<engine, ReleaseArrayElements("results", resultsElements)>>
               ELSE <<ThrowOutOfMemoryError>>)
              \o DestroyGeoPolygon(c.polygon) \o ThrowIfErr(err))

(***************************************************************************)
(* ConvertLinkedGeoPolygonToManaged.  in.poly is the linked structure: a   *)
(* sequence of polygons, each a sequence of loops, each a sequence of      *)
(* coordinates <<lat, lng>>.  in.failAt = k > 0: the k-th JNI call of the conversion    *)
(* fails (NewObject returns NULL, or add leaves an exception pending).     *)
(***************************************************************************)
\* var = NewObject(class, init, args): arr is the variable assigned, out the
\* constructor's arguments.
NewObject(var, class, args) == Ev("NewObject", class, var, 0, 0, {}, args)

\* CallBooleanMethod(list, add, element)
CallAdd(list) == Ev("CallBooleanMethod", "add", list, 0, 0, {}, {})

RECURSIVE ConvertCoords_Reversed(_)
ConvertCoords_Reversed(coords) ==
    IF coords = <<>> THEN <<>>
    ELSE ConvertCoords_Reversed(Tail(coords))
         \o <<NewObject("v", "LatLng", {Head(coords)}), CallAdd("resultLoop")>>

RECURSIVE ConvertCoords(_)
ConvertCoords(coords) ==
    IF coords = <<>> THEN <<>>
    ELSE <<NewObject("v", "LatLng", {Head(coords)}), CallAdd("resultLoop")>>
         \o ConvertCoords(Tail(coords))

RECURSIVE ConvertLoops(_)
ConvertLoops(loops) ==
    IF loops = <<>> THEN <<>>
    ELSE <<NewObject("resultLoop", "ArrayList", {})>> \o ConvertCoords(Head(loops))
         \o <<CallAdd("resultLoops")>> \o ConvertLoops(Tail(loops))

RECURSIVE ConvertPolygons(_)
ConvertPolygons(polys) ==
    IF polys = <<>> THEN <<>>
    ELSE <<NewObject("resultLoops", "ArrayList", {})>>
         \o (IF Head(polys) # <<>>
             THEN ConvertLoops(Head(polys)) \o <<CallAdd("results")>> ELSE <<>>)
         \o ConvertPolygons(Tail(polys))

ConvertLinkedGeoPolygonToManaged(in) ==
    LET all == ConvertPolygons(in.poly)
    IN  IF in.failAt > 0 /\ in.failAt <= Len(all)
        THEN SubSeq(all, 1, in.failAt - 1)
             \o <<[all[in.failAt] EXCEPT !.x = NULL]>>
        ELSE all

destroyLinkedMultiPolygon == Ev("destroyLinkedMultiPolygon", "", "", 0, 0, {}, {})

NativeMethods_cellsToLinkedMultiPolygon_ReturnsEarly(in) ==
    LET conv == ConvertLinkedGeoPolygonToManaged(in)
    IN  <<GetArrayLength("h3")>> \o
        PinThen("h3", in,
            <<EngineCall("cellsToLinkedMultiPolygon", "", in.err, NULL, {}, {})>> \o
            (IF in.err # E_SUCCESS
             THEN <<ReleaseArrayElements("h3", Pinned("h3", in)),
                    ThrowH3Exception(in.err)>>
             ELSE conv \o
                  (IF conv # <<>> /\ conv[Len(conv)].x = NULL THEN <<>>
                   ELSE <<destroyLinkedMultiPolygon,
                          ReleaseArrayElements("h3", Pinned("h3", in))>>)))

NativeMethods_cellsToLinkedMultiPolygon(in) ==
    <<GetArrayLength("h3")>> \o
    PinThen("h3", in,
        <<EngineCall("cellsToLinkedMultiPolygon", "", in.err, NULL, {}, {})>> \o
        (IF in.err # E_SUCCESS
         THEN <<ReleaseArrayElements("h3", Pinned("h3", in)),
                ThrowH3Exception(in.err)>>
         ELSE ConvertLinkedGeoPolygonToManaged(in)
              \o <<destroyLinkedMultiPolygon,
                   ReleaseArrayElements("h3", Pinned("h3", in))>>))

(***************************************************************************)
(* Dispatch: the path of method m.                                         *)
(***************************************************************************)
ArrayMethods ==
    {"constructCell", "cellToLatLng", "cellToLocalIj", "vertexToLatLng",
     "cellToBoundary", "directedEdgeToBoundary", "gridDisk",
     "gridDiskDistances", "gridDiskUnsafe", "gridRing", "gridRingUnsafe",
     "gridPathCells", "cellToChildren", "getRes0Cells", "getPentagons",
     "directedEdgeToCells", "originToDirectedEdges", "getIcosahedronFaces",
     "cellToVertexes", "compactCells", "uncompactCellsSize", "uncompactCells",
     "maxPolygonToCellsSize", "maxPolygonToCellsSizeExperimental",
     "polygonToCells", "polygonToCellsExperimental",
     "cellsToLinkedMultiPolygon"}

Methods ==
    ScalarFallibleMethods \cup InfallibleMethods \cup ArrayMethods \cup {"gridDistance"}

Path(m, in) ==
    CASE m \in ScalarFallibleMethods -> ScalarFallible(m, in)
      [] m \in InfallibleMethods -> Infallible(m, in)
      [] m = "gridDistance" -> NativeMethods_gridDistance(in)
      [] m = "constructCell" -> NativeMethods_constructCell(in)
      [] m = "cellToLatLng" -> NativeMethods_cellToLatLng(in)
      [] m = "cellToLocalIj" -> NativeMethods_cellToLocalIj(in)
      [] m = "vertexToLatLng" -> NativeMethods_vertexToLatLng(in)
      [] m = "cellToBoundary" -> NativeMethods_cellToBoundary(in)
      [] m = "directedEdgeToBoundary" -> NativeMethods_directedEdgeToBoundary(in)
      [] m = "gridDisk" -> NativeMethods_gridDisk(in)
      [] m = "gridDiskDistances" -> NativeMethods_gridDiskDistances(in)
      [] m = "gridDiskUnsafe" -> NativeMethods_gridDiskUnsafe(in)
      [] m = "gridRing" -> NativeMethods_gridRing(in)
      [] m = "gridRingUnsafe" -> NativeMethods_gridRingUnsafe(in)
      [] m = "gridPathCells" -> NativeMethods_gridPathCells(in)
      [] m = "cellToChildren" -> NativeMethods_cellToChildren(in)
      [] m = "getRes0Cells" -> NativeMethods_getRes0Cells(in)
      [] m = "getPentagons" -> NativeMethods_getPentagons(in)
      [] m = "directedEdgeToCells" -> NativeMethods_directedEdgeToCells(in)
      [] m = "originToDirectedEdges" -> NativeMethods_originToDirectedEdges(in)
      [] m = "getIcosahedronFaces" -> NativeMethods_getIcosahedronFaces(in)
      [] m = "cellToVertexes" -> NativeMethods_cellToVertexes(in)
      [] m = "compactCells" -> NativeMethods_compactCells(in)
      [] m = "uncompactCellsSize" -> NativeMethods_uncompactCellsSize(in)
      [] m = "uncompactCells" -> NativeMethods_uncompactCells(in)
      [] m = "maxPolygonToCellsSize" -> NativeMethods_maxPolygonToCellsSize(in)
      [] m = "maxPolygonToCellsSizeExperimental" ->
             NativeMethods_maxPolygonToCellsSizeExperimental(in)
      [] m = "polygonToCells" -> NativeMethods_polygonToCells(in)
      [] m = "polygonToCellsExperimental" ->
             NativeMethods_polygonToCellsExperimental(in)
      [] m = "cellsToLinkedMultiPolygon" ->
             NativeMethods_cellsToLinkedMultiPolygon(in)

(***************************************************************************)
(* The effect of a call on the thread's pending exception and on the       *)
(* static class cache.  jvm = [pending, statics].                          *)
(***************************************************************************)
Classes == {"ArrayList", "OutOfMemoryError", "H3Exception", "LatLng"}

NoException == [kind |-> "none", code |-> 0, by |-> ""]

\* NewObject on a class reference that is NULL or was deleted.
Undefined == [kind |-> "undefined", code |-> 0, by |-> "jvm"]

\* NewObject returned NULL: the JVM has raised the error itself.
AllocationFailed == [kind |-> "OutOfMemoryError", code |-> 0, by |-> "jvm"]

ThrowH3ExceptionEffect_DeletesClass(err, in, jvm) ==
    IF jvm.statics["H3Exception"] # "ref"
    THEN [jvm EXCEPT !.pending = Undefined]
    ELSE [pending |-> [kind |-> "H3Exception", code |-> err, by |-> "code"],
          statics |-> [jvm.statics EXCEPT !["H3Exception"] = "deleted"]]

ThrowH3ExceptionEffect(err, in, jvm) ==
    IF jvm.statics["H3Exception"] # "ref"
    THEN [jvm EXCEPT !.pending = Undefined]
    ELSE IF "newH3" \in in.fail
    THEN [jvm EXCEPT !.pending = AllocationFailed]
    ELSE [jvm EXCEPT !.pending = [kind |-> "H3Exception", code |-> err, by |-> "code"]]

ThrowOutOfMemoryErrorEffect(in, jvm) ==
    IF jvm.statics["OutOfMemoryError"] # "ref"
    THEN [jvm EXCEPT !.pending = Undefined]
    ELSE IF "newOOM" \in in.fail
    THEN [jvm EXCEPT !.pending = AllocationFailed]
    ELSE [jvm EXCEPT !.pending = [kind |-> "OutOfMemoryError", code |-> 0, by |-> "code"]]

NewObjectEffect(ev, jvm) ==
    IF jvm.statics[ev.fn] # "ref"
    THEN [jvm EXCEPT !.pending = Undefined]
    ELSE IF ev.x = NULL
    THEN [jvm EXCEPT !.pending = AllocationFailed]
    ELSE jvm

CallBooleanMethodEffect(ev, jvm) ==
    IF ev.x = NULL
    THEN [jvm EXCEPT !.pending = [kind |-> "Throwable", code |-> 0, by |-> "jvm"]]
    ELSE jvm

Effect(ev, in, jvm) ==
    CASE ev.op = "ThrowH3Exception" -> ThrowH3ExceptionEffect(ev.x, in, jvm)
      [] ev.op = "ThrowOutOfMemoryError" -> ThrowOutOfMemoryErrorEffect(in, jvm)
      [] ev.op = "NewObject" -> NewObjectEffect(ev, jvm)
      [] ev.op = "CallBooleanMethod" -> CallBooleanMethodEffect(ev, jvm)
      [] OTHER -> jvm

(***************************************************************************)
(* The environment's answers a call is explored with.                      *)
(*   len    length of the method's output array                            *)
(*   len2   length of its input array (h3 of compactCells, verts of the    *)
(*          polygon methods)                                               *)
(*   fail   the pins and allocations that fail                             *)
(*   err    the error code the engine returns                              *)
(*   n      the number of elements the engine produces                     *)
(*   k, cell, idx   arguments of gridDisk and cellToChildren               *)
(*   cell, cell2    arguments a and b of gridDistance                      *)
(*   set    the cells of h3 (compactCells, uncompactCells; k the target    *)
(*          resolution)                                                    *)
(*   holes, hvLen   holeSizes' elements and holeVerts' length              *)
(*   poly, failAt   the linked polygon and the failing conversion call     *)
(***************************************************************************)
D ==
    [len |-> 0, len2 |-> 0, fail |-> {}, err |-> E_SUCCESS, n |-> 0, k |-> 0,
     cell |-> Pentagon, idx |-> [bc |-> 0, digits |-> <<>>], holes |-> <<>>,
     hvLen |-> 0, poly |-> <<>>, failAt |-> 0, set |-> {},
     cell2 |-> Pentagon]

Errs == 0..MaxErr
Lens == 0..MaxLen
Outs == 0..MaxOut

\* No failure, one failure, or a failed pin whose OutOfMemoryError cannot be
\* allocated either.
Fails(R) ==
    {{}} \cup {{r} : r \in R \cup {"newH3", "newOOM"}} \cup {{r, "newOOM"} : r \in R}

FarCell == <<MaxK + 1, 0>>
Origins == {Pentagon, <<-1, 0>>, <<0, 1>>, FarCell, InvalidCell}

ValidIndex(idx) ==
    \A i \in 1..Len(idx.digits) :
        (idx.bc = PentagonBaseCell /\ AllZero(SubSeq(idx.digits, 1, i - 1)))
            => idx.digits[i] # K_AXES_DIGIT

DeepCell(r) == [bc |-> 0, digits |-> [i \in 1..r |-> 0]]

Cells ==
    {idx \in {[bc |-> b, digits |-> ds] :
                 b \in {0, PentagonBaseCell},
                 ds \in UNION {[1..r -> {0, K_AXES_DIGIT, 6}] : r \in 0..MaxCellRes}} :
        ValidIndex(idx)}
    \cup {DeepCell(MAX_H3_RES - 1), DeepCell(MAX_H3_RES)}

Hex0 == [bc |-> 0, digits |-> <<>>]
Pent0 == [bc |-> PentagonBaseCell, digits |-> <<>>]

\* Cell sets: empty, single cells, full and partial sibling sets, sets of
\* mixed resolution, two levels of full sibling sets, and a cell together
\* with one of its own children.
CellSets ==
    {{}, {Hex0}, {Pent0}, Siblings(Hex0), Siblings(Pent0),
     Siblings(Hex0) \ {ChildIndex(Hex0, 0)},
     {Pent0, ChildIndex(Hex0, 3)},
     Siblings(Pent0) \cup {Hex0},
     (Siblings(Pent0) \ {ChildIndex(Pent0, 0)}) \cup Siblings(ChildIndex(Pent0, 0)),
     {Hex0, ChildIndex(Hex0, 0)}}

MaxRes(S) ==
    IF S = {} THEN 0
    ELSE CHOOSE r \in 0..MAX_H3_RES :
            (\E c \in S : Resolution(c) = r) /\ (\A c \in S : Resolution(c) <= r)

\* Element counts of the holes: even, odd and zero.
HoleSizes == {<<>>, <<6>>, <<6, 8>>, <<3, 6>>, <<4, 0, 5>>}

\* Lengths of holeVerts: empty, one hole's worth, the sum of two holes.
HoleVertsLens == {0, 6, 14}

\* A loop of three coordinates.
Loop3(a) == << <<a, -a>>, <<a + 1, -a>>, <<a, 1 - a>> >>

Polys ==
    {<< <<>> >>, << <<Loop3(1)>> >>, << <<Loop3(1), Loop3(4)>>, <<Loop3(7)>> >>,
     << <<Loop3(1)>>, <<>> >>, << <<>>, <<Loop3(1)>>, <<>>, << <<<<1, 2>>>>, Loop3(4)>> >>}

OutInputs(arrs) ==
    {[D EXCEPT !.len = l, !.n = n, !.err = e, !.fail = f] :
        l \in Lens, n \in Outs, e \in Errs, f \in Fails(arrs)}

FixedInputs(count, arrs) ==
    {[D EXCEPT !.len = l, !.err = e, !.fail = f] :
        l \in Lens \cup {count - 1, count}, e \in Errs, f \in Fails(arrs)}

PolygonInputs ==
    {[D EXCEPT !.len2 = v, !.holes = h, !.hvLen = hv, !.len = l, !.n = n,
               !.err = e, !.fail = f] :
        v \in {0, 7}, h \in HoleSizes, hv \in HoleVertsLens,
        l \in {0, MaxLen}, n \in {0, MaxOut},
        e \in {E_SUCCESS, E_FAILED},
        f \in Fails({"verts", "calloc", "holeSizes", "holeVerts", "results"})}

Inputs(m) ==
    CASE m \in ScalarFallibleMethods ->
            {[D EXCEPT !.err = e, !.fail = f] : e \in Errs, f \in {{}, {"newH3"}}}
      [] m \in InfallibleMethods -> {D}
      [] m = "gridDistance" ->
            {[D EXCEPT !.cell = a, !.cell2 = b, !.fail = f] :
                a \in Origins, b \in Origins, f \in {{}, {"newH3"}}}
      [] m = "constructCell" ->
            {[D EXCEPT !.err = e, !.fail = f] : e \in Errs, f \in Fails({"digits"})}
      [] m = "uncompactCellsSize" ->
            {[D EXCEPT !.err = e, !.fail = f] : e \in Errs, f \in Fails({"h3"})}
      [] m = "cellToLatLng" ->
            {[D EXCEPT !.len = l, !.err = e, !.fail = f] :
                l \in Lens, e \in Errs, f \in Fails({"verts"})}
      [] m = "cellToLocalIj" ->
            {[D EXCEPT !.len = l, !.err = e, !.fail = f] :
                l \in Lens, e \in Errs, f \in Fails({"coords"})}
      [] m = "vertexToLatLng" ->
            {[D EXCEPT !.len = l, !.err = e, !.fail = f] :
                l \in Lens, e \in Errs, f \in Fails({"latLng"})}
      [] m \in {"cellToBoundary", "directedEdgeToBoundary"} ->
            {[D EXCEPT !.len = l, !.n = n, !.err = e, !.fail = f] :
                n \in 0..MAX_CELL_BNDRY_VERTS,
                l \in Lens \cup {2 * MAX_CELL_BNDRY_VERTS},
                e \in Errs, f \in Fails({"verts"})}
      [] m = "gridDisk" ->
            {[D EXCEPT !.cell = c, !.k = k, !.len = l, !.fail = f] :
                c \in Origins, k \in -1..MaxK,
                l \in Lens \cup {Engine_maxGridDiskSize(j) : j \in 0..MaxK},
                f \in Fails({"results"})}
      [] m = "cellToChildren" ->
            {[D EXCEPT !.idx = c, !.k = Resolution(c) + d, !.len = l, !.fail = f] :
                c \in Cells, d \in {-1, 1}, l \in Lens \cup {Cardinality(Digits)},
                f \in Fails({"results"})}
      [] m = "gridDiskDistances" -> OutInputs({"results", "distances"})
      [] m \in {"gridDiskUnsafe", "gridRing", "gridRingUnsafe", "gridPathCells"} ->
            OutInputs({"results"})
      [] m = "uncompactCells" ->
            {[D EXCEPT !.set = S, !.k = r, !.len = l, !.fail = f] :
                S \in CellSets, r \in 0..(MaxCellRes + 1),
                l \in {0, 1, 7 ^ (MaxCellRes + 1) + Cardinality(Digits)},
                f \in Fails({"h3", "results"})}
      [] m = "getIcosahedronFaces" -> OutInputs({"faces"})
      [] m = "getRes0Cells" -> FixedInputs(res0CellCount, {"results"})
      [] m = "getPentagons" -> FixedInputs(pentagonCount, {"results"})
      [] m = "directedEdgeToCells" -> FixedInputs(EdgeCells, {"results"})
      [] m = "originToDirectedEdges" -> FixedInputs(MAX_HEX_EDGES, {"results"})
      [] m = "cellToVertexes" -> FixedInputs(NumVertexes, {"vertexes"})
      [] m = "compactCells" ->
            {[D EXCEPT !.set = S, !.len = l, !.err = e, !.fail = f] :
                S \in CellSets, l \in {0, 1, 2 * Cardinality(Digits)}, e \in Errs,
                f \in Fails({"h3", "results"})}
      [] m \in {"maxPolygonToCellsSize", "maxPolygonToCellsSizeExperimental",
                "polygonToCells", "polygonToCellsExperimental"} -> PolygonInputs
      [] m = "cellsToLinkedMultiPolygon" ->
            {[D EXCEPT !.poly = p, !.failAt = a, !.err = e, !.fail = f] :
                p \in Polys, a \in 0..MaxFail, e \in Errs, f \in Fails({"h3"})}

\* With several threads the calls explored are one of each kind of effect.
ConcurrentMethods == {"gridDistance", "cellToVertexes", "cellsToLinkedMultiPolygon"}

ConcurrentInputs(m) ==
    {in \in Inputs(m) :
        /\ in.err \in {E_SUCCESS, E_FAILED}
        /\ in.fail = {}
        /\ in.len \in {0, NumVertexes}
        /\ in.failAt = 0
        /\ in.cell \in {Pentagon, InvalidCell}
        /\ in.cell2 = Pentagon
        /\ in.poly \in {<<>>, << <<Loop3(1)>> >>}}

(***************************************************************************)
(* The state machine.                                                      *)
(***************************************************************************)
Threads == DOMAIN th

Idle ==
    [st |-> "idle", m |-> "", in |-> D, pc |-> 0, log |-> <<>>,
     pending |-> NoException]

NoClasses == [c \in Classes |-> "null"]
LoadedClasses == [c \in Classes |-> "ref"]

Init ==
    /\ lib = "unloaded"
    /\ statics = NoClasses
    /\ th = [t \in {1} |-> Idle]

InitConcurrent ==
    /\ lib = "unloaded"
    /\ statics = NoClasses
    /\ th = [t \in 1..NThreads |-> Idle]

\* JNI_OnLoad: GetEnv fails and the load is refused, or the four classes are
\* looked up and cached as global references.
JNI_OnLoad ==
    /\ lib = "unloaded"
    /\ \E getEnvOk \in BOOLEAN :
          IF getEnvOk
          THEN lib' = "loaded" /\ statics' = LoadedClasses
          ELSE lib' = "failed" /\ UNCHANGED statics
    /\ UNCHANGED th

\* JNI_OnUnload: runs when no thread is in native code; the global
\* references are deleted, the static variables keep their values.
JNI_OnUnload ==
    /\ lib = "loaded"
    /\ \A t \in Threads : th[t].st = "idle"
    /\ \E getEnvOk \in BOOLEAN :
          statics' = IF getEnvOk
                     THEN [c \in Classes |->
                              IF statics[c] = "null" THEN "null" ELSE "deleted"]
                     ELSE statics
    /\ lib' = "unloaded"
    /\ UNCHANGED th

Invoke(t) ==
    /\ lib = "loaded"
    /\ th[t].st = "idle"
    /\ \E m \in (IF Cardinality(Threads) > 1 THEN ConcurrentMethods ELSE Methods) :
          \E in \in (IF Cardinality(Threads) > 1 THEN ConcurrentInputs(m) ELSE Inputs(m)) :
             th' = [th EXCEPT ![t] = [st |-> "running", m |-> m, in |-> in, pc |-> 1,
                                      log |-> <<>>, pending |-> NoException]]
    /\ UNCHANGED <<lib, statics>>

Step(t) ==
    /\ th[t].st = "running"
    /\ LET path == Path(th[t].m, th[t].in)
       IN  /\ th[t].pc <= Len(path)
           /\ LET ev == path[th[t].pc]
                  jvm == Effect(ev, th[t].in, [pending |-> th[t].pending,
                                               statics |-> statics])
              IN  /\ th' = [th EXCEPT ![t].pc = @ + 1,
                                      ![t].log = Append(@, ev),
                                      ![t].pending = jvm.pending]
                  /\ statics' = jvm.statics
    /\ UNCHANGED lib

Return(t) ==
    /\ th[t].st = "running"
    /\ th[t].pc > Len(Path(th[t].m, th[t].in))
    /\ th' = [th EXCEPT ![t].st = "returned"]
    /\ UNCHANGED <<lib, statics>>

\* Back in Java: the caller takes the result or the pending exception.
Resume(t) ==
    /\ th[t].st = "returned"
    /\ th' = [th EXCEPT ![t] = Idle]
    /\ UNCHANGED <<lib, statics>>

Next ==
    \/ JNI_OnLoad
    \/ JNI_OnUnload
    \/ \E t \in Threads : Invoke(t)
    \/ \E t \in Threads : Step(t)
    \/ \E t \in Threads : Return(t)
    \/ \E t \in Threads : Resume(t)

Spec == Init /\ [][Next]_vars

SpecConcurrent == InitConcurrent /\ [][Next]_vars

(***************************************************************************)
(* Reading a call's log.                                                   *)
(***************************************************************************)
Returned(t) == th[t].st = "returned"

Log(t) == th[t].log

At(t, op) == {i \in 1..Len(Log(t)) : Log(t)[i].op = op}

EngineEvents(t) == {Log(t)[i] : i \in At(t, "Engine")}

\* Successful pins and releases of arr in the call.
Pins(t, arr) == {i \in At(t, "Get") : Log(t)[i].arr = arr /\ Log(t)[i].x # NULL}

Releases(t, arr) == {i \in At(t, "Release") : Log(t)[i].arr = arr}

\* The indices of arr written by the engine or by the method itself.
Written(t, arr) ==
    UNION {Log(t)[i].w : i \in {j \in At(t, "Engine") \cup At(t, "Write") :
                                    Log(t)[j].arr = arr}}

Arrays ==
    {"results", "distances", "verts", "holeSizes", "holeVerts", "h3", "digits",
     "coords", "latLng", "faces", "vertexes"}

\* Every pin and allocation the call attempted succeeded.
AllSucceeded(t) ==
    /\ \A i \in At(t, "Get") \cup At(t, "calloc") \cup At(t, "NewObject") :
          Log(t)[i].x # NULL
    /\ At(t, "ThrowH3Exception") # {} => "newH3" \notin th[t].in.fail
    /\ At(t, "ThrowOutOfMemoryError") # {} => "newOOM" \notin th[t].in.fail

ExceptionPending(t) == th[t].pending.kind # "none"

(***************************************************************************)
(* C1. Error translation: in a call of a method that wraps a fallible      *)
(* engine function in which every pin and allocation succeeded, an         *)
(* H3Exception with code e is pending at return exactly when the engine    *)
(* returned the non-zero code e; ThrowH3Exception is called at most once,  *)
(* with the code the engine returned, and never for E_SUCCESS.             *)
(***************************************************************************)
C1_ErrorTranslation ==
    \A t \in Threads :
        (Returned(t) /\ th[t].m \notin InfallibleMethods /\ AllSucceeded(t)) =>
            /\ Cardinality(At(t, "ThrowH3Exception")) <= 1
            /\ \A i \in At(t, "ThrowH3Exception") :
                  /\ Log(t)[i].x # E_SUCCESS
                  /\ \E j \in At(t, "Engine") : j < i /\ Log(t)[j].x = Log(t)[i].x
            /\ (th[t].pending.kind = "H3Exception") <=>
                  (\E e \in EngineEvents(t) : e.x # E_SUCCESS)
            /\ th[t].pending.kind = "H3Exception" =>
                  \A e \in EngineEvents(t) : e.x = th[t].pending.code

C1_Witness ==
    \E t \in Threads :
        /\ Returned(t) /\ th[t].m = "gridDiskDistances" /\ AllSucceeded(t)
        /\ \E e \in EngineEvents(t) : e.x = E_FAILED
        /\ th[t].pending = [kind |-> "H3Exception", code |-> E_FAILED, by |-> "code"]

(***************************************************************************)
(* C2. No buffer reference is retained after return: on every path of      *)
(* every native method, each array that was pinned is released exactly     *)
(* once before the method returns.                                         *)
(***************************************************************************)
C2_EveryPinReleased ==
    \A t \in Threads :
        Returned(t) =>
            \A arr \in Arrays :
                Cardinality(Releases(t, arr)) = Cardinality(Pins(t, arr))

(***************************************************************************)
(* C3. cellToBoundary and directedEdgeToBoundary write only within the     *)
(* capacity of verts: every index written is less than its length, for     *)
(* every length (even or odd) and every vertex count 0..10.                *)
(***************************************************************************)
C3_BoundaryWithinCapacity ==
    \A t \in Threads :
        (Returned(t) /\ th[t].m \in {"cellToBoundary", "directedEdgeToBoundary"}) =>
            \A i \in Written(t, "verts") : i < th[t].in.len

(***************************************************************************)
(* C4. For gridDisk, gridDiskDistances, gridDiskUnsafe, gridRing,          *)
(* gridRingUnsafe, gridPathCells, cellToChildren, compactCells,            *)
(* polygonToCells and getIcosahedronFaces, no element is written at an     *)
(* index greater than or equal to the length of the output array,          *)
(* whatever that length is.                                                *)
(***************************************************************************)
UncheckedOutputMethods ==
    {"gridDisk", "gridDiskDistances", "gridDiskUnsafe", "gridRing",
     "gridRingUnsafe", "gridPathCells", "cellToChildren", "compactCells",
     "polygonToCells", "getIcosahedronFaces"}

C4_OutputWithinLength ==
    \A t \in Threads :
        (Returned(t) /\ th[t].m \in UncheckedOutputMethods) =>
            \A i \in Written(t, "results") \cup Written(t, "faces") :
                i < th[t].in.len

(***************************************************************************)
(* C5. No silent truncation: when the output array is too short for the    *)
(* result (length < 2 for cellToLatLng, cellToLocalIj, vertexToLatLng;     *)
(* length < 2 * numVerts for cellToBoundary, directedEdgeToBoundary), the  *)
(* call ends with an exception pending.                                    *)
(***************************************************************************)
TooShort(t) ==
    \/ /\ th[t].m \in {"cellToLatLng", "cellToLocalIj", "vertexToLatLng"}
       /\ th[t].in.len < MinCoords
    \/ /\ th[t].m \in {"cellToBoundary", "directedEdgeToBoundary"}
       /\ th[t].in.len < 2 * th[t].in.n

C5_NoSilentTruncation ==
    \A t \in Threads : (Returned(t) /\ TooShort(t)) => ExceptionPending(t)

(***************************************************************************)
(* C6. polygonToCellsExperimental passes the length of results as the      *)
(* engine's output bound; if the true number of cells exceeds it, the      *)
(* call ends with an H3Exception carrying the buffer-overflow code, and    *)
(* no index at or past the length is written.                              *)
(*                                                                         *)
(* C6_AsStated is the claim for every call.  C6_BoundedStreaming is the    *)
(* claim for the calls in which every pin and allocation succeeded.        *)
(***************************************************************************)
OverflowPending(t) ==
    th[t].pending = [kind |-> "H3Exception", code |-> E_MEMORY_BOUNDS, by |-> "code"]

RequiredCount(m) ==
    CASE m = "getRes0Cells" -> res0CellCount
      [] m = "getPentagons" -> pentagonCount
      [] m = "directedEdgeToCells" -> EdgeCells
      [] m = "originToDirectedEdges" -> MAX_HEX_EDGES
      [] m = "cellToVertexes" -> NumVertexes

FixedOutputMethods ==
    {"getRes0Cells", "getPentagons", "directedEdgeToCells",
     "originToDirectedEdges", "cellToVertexes"}

C7_ShortArraySignaled ==
    \A t \in Threads :
        (Returned(t) /\ th[t].m \in FixedOutputMethods
                     /\ th[t].in.len < RequiredCount(th[t].m)) =>
            /\ ExceptionPending(t)
            /\ EngineEvents(t) = {}
            /\ Written(t, "results") \cup Written(t, "vertexes") = {}

C7_Witness ==
    \E t \in Threads :
        /\ Returned(t) /\ th[t].m = "cellToVertexes"
        /\ th[t].in.len = NumVertexes - 1
        /\ Pins(t, "vertexes") # {}
        /\ th[t].pending = [kind |-> "OutOfMemoryError", code |-> 0, by |-> "code"]

(***************************************************************************)
(* C8. Concurrent calls are safe with no locking: between JNI_OnLoad and   *)
(* JNI_OnUnload no step of a native method writes the class cache, and     *)
(* under every interleaving each call ends with the log and the pending    *)
(* exception it has when run alone.                                        *)
(***************************************************************************)
RECURSIVE RunAlone(_, _, _)
RunAlone(path, in, jvm) ==
    IF path = <<>> THEN jvm
    ELSE RunAlone(Tail(path), in, Effect(Head(path), in, jvm))

Sequential(m, in) ==
    RunAlone(Path(m, in), in, [pending |-> NoException, statics |-> LoadedClasses])

SameAsSequential ==
    \A t \in Threads :
        Returned(t) =>
            /\ th[t].log = Path(th[t].m, th[t].in)
            /\ th[t].pending = Sequential(th[t].m, th[t].in).pending

CacheWrittenOnlyByLoad ==
    (lib = "loaded" /\ lib' = "loaded") => statics' = statics

C8_ConcurrentCallsSafe == []SameAsSequential /\ [][CacheWrittenOnlyByLoad]_vars

C8_Witness ==
    \E t, u \in Threads :
        /\ t # u
        /\ Returned(t) /\ th[t].pending.kind = "H3Exception"
        /\ th[u].st = "running" /\ th[u].pc > 1
        /\ th[u].pending.kind = "H3Exception"

(***************************************************************************)
(* C9. For a valid origin and k >= 0, gridDisk yields a set that contains  *)
(* the origin and has at most 3k^2+3k+1 cells: exactly the origin for      *)
(* k = 0, exactly 3k^2+3k+1 when the disk does not cross a pentagon.  The  *)
(* count never exceeds maxGridDiskSize(k), and a results array of that     *)
(* length is not overrun.                                                  *)
(***************************************************************************)
CrossesPentagon(origin, k) == HexDistance(origin, Pentagon) < k

C9_GridDiskSize ==
    \A t \in Threads :
        (Returned(t) /\ th[t].m = "gridDisk" /\ th[t].in.cell # InvalidCell
                     /\ th[t].in.k >= 0) =>
            LET k == th[t].in.k
                origin == th[t].in.cell
                full == 3 * k * k + 3 * k + 1
            IN  \A e \in EngineEvents(t) :
                    /\ e.x = E_SUCCESS
                    /\ origin \in e.out
                    /\ Cardinality(e.out) <= full
                    /\ k = 0 => e.out = {origin}
                    /\ ~CrossesPentagon(origin, k) => Cardinality(e.out) = full
                    /\ Cardinality(e.out) <= Engine_maxGridDiskSize(k)
                    /\ th[t].in.len >= Engine_maxGridDiskSize(k) =>
                          \A i \in e.w : i < th[t].in.len

C9_Witness ==
    \E t \in Threads :
        /\ Returned(t) /\ th[t].m = "gridDisk" /\ th[t].in.cell = <<-1, 0>>
        /\ th[t].in.k = MaxK
        /\ th[t].in.len = Engine_maxGridDiskSize(MaxK)
        /\ \E e \in EngineEvents(t) :
              /\ Cardinality(e.out) < Engine_maxGridDiskSize(MaxK)
              /\ e.w = Range(0, th[t].in.len - 1)

(***************************************************************************)
(* C10. Parent/child round trip: for a cell c of resolution r < 15, every  *)
(* cell returned by cellToChildren(c, r + 1) has cellToParent(child, r)    *)
(* equal to c.                                                             *)
(***************************************************************************)
C10_ParentOfChild ==
    \A t \in Threads :
        (Returned(t) /\ th[t].m = "cellToChildren"
                     /\ Resolution(th[t].in.idx) < MAX_H3_RES
                     /\ th[t].in.k = Resolution(th[t].in.idx) + 1) =>
            \A e \in EngineEvents(t) :
                /\ e.x = E_SUCCESS
                /\ e.out # {}
                /\ \A child \in e.out :
                      /\ Resolution(child) = th[t].in.k
                      /\ cellToParent(child, Resolution(th[t].in.idx)) = th[t].in.idx

C10_Witness ==
    \E t \in Threads :
        /\ Returned(t) /\ th[t].m = "cellToChildren"
        /\ th[t].in.idx = [bc |-> PentagonBaseCell, digits |-> <<0>>]
        /\ th[t].in.k = 2
        /\ \E e \in EngineEvents(t) : Cardinality(e.out) = Cardinality(Digits) - 1

(***************************************************************************)
(* C11. Compact/uncompact fixed point: for a cell set S and a target       *)
(* resolution no coarser than any cell of S, compacting the cells that     *)
(* uncompactCells returns gives the compacted form of S, and compacting    *)
(* that again leaves it unchanged; what compactCells returns is itself     *)
(* left unchanged by compaction.                                           *)
(*                                                                         *)
(* C11_AsStated is the claim for every cell set.  C11_CompactFixedPoint    *)
(* is the claim for the sets in which no cell is a descendant of another.  *)
(***************************************************************************)
IsAncestor(a, c) ==
    /\ Resolution(a) < Resolution(c)
    /\ cellToParent(c, Resolution(a)) = a

NonOverlapping(S) == \A a, c \in S : ~IsAncestor(a, c)

RoundTrip(t) ==
    \A e \in EngineEvents(t) :
        e.x = E_SUCCESS =>
            /\ CompactSet(e.out) = CompactSet(th[t].in.set)
            /\ CompactSet(CompactSet(e.out)) = CompactSet(e.out)

C12_GridDistanceSymmetric ==
    \A t \in Threads :
        (Returned(t) /\ th[t].m = "gridDistance") =>
            LET a == th[t].in.cell
                b == th[t].in.cell2
            IN  \A e \in EngineEvents(t) :
                    /\ (a = b /\ a # InvalidCell) => (e.x = E_SUCCESS /\ e.out = {0})
                    /\ (e.x = E_SUCCESS /\ Engine_gridDistance(b, a).x = E_SUCCESS) =>
                          e.out = Engine_gridDistance(b, a).out

C12_Witness ==
    \E t \in Threads :
        /\ Returned(t) /\ th[t].m = "gridDistance"
        /\ th[t].in.cell = <<0, 1>> /\ th[t].in.cell2 = <<-1, 0>>
        /\ \E e \in EngineEvents(t) :
              /\ e.x = E_SUCCESS /\ 0 \notin e.out
              /\ Engine_gridDistance(<<-1, 0>>, <<0, 1>>).out = e.out

(***************************************************************************)
(* C13. CreateGeoPolygon returns 0 exactly when every pin and allocation   *)
(* it attempted succeeded.  Otherwise it returns E_MEMORY_ALLOC, its last  *)
(* call is ThrowOutOfMemoryError, an OutOfMemoryError is pending, and      *)
(* every array it had pinned is released once and the holes array, when    *)
(* it was allocated, is freed once before it returns.                      *)
(***************************************************************************)
PolygonMethods ==
    {"maxPolygonToCellsSize", "maxPolygonToCellsSizeExperimental",
     "polygonToCells", "polygonToCellsExperimental"}

\* The calls of kind op on arr in a sequence of calls.
CallsIn(evs, op, arr) ==
    {i \in 1..Len(evs) : evs[i].op = op /\ evs[i].arr = arr}

AcquiredIn(evs, op, arr) == {i \in CallsIn(evs, op, arr) : evs[i].x # NULL}

AttemptsIn(evs) == {i \in 1..Len(evs) : evs[i].op \in {"Get", "calloc"}}

PolygonArrays == {"verts", "holeSizes", "holeVerts"}

C13_CreateGeoPolygonFailure ==
    \A t \in Threads :
        (Returned(t) /\ th[t].m \in PolygonMethods) =>
            LET c == CreateGeoPolygon(th[t].in)
                n == Len(c.evs)
            IN  /\ SubSeq(Log(t), 1, n) = c.evs
                /\ c.err \in {E_SUCCESS, E_MEMORY_ALLOC}
                /\ (c.err = E_SUCCESS) <=>
                      (\A i \in AttemptsIn(c.evs) : c.evs[i].x # NULL)
                /\ c.err = E_MEMORY_ALLOC =>
                      /\ c.evs[n].op = "ThrowOutOfMemoryError"
                      /\ Cardinality(CallsIn(c.evs, "ThrowOutOfMemoryError", "")) = 1
                      /\ th[t].pending.kind = "OutOfMemoryError"
                      /\ \A arr \in PolygonArrays :
                            /\ Cardinality(CallsIn(c.evs, "Release", arr))
                                  = Cardinality(AcquiredIn(c.evs, "Get", arr))
                            /\ \A i \in CallsIn(c.evs, "Release", arr) :
                                  \E j \in AcquiredIn(c.evs, "Get", arr) :
                                      j < i /\ c.evs[j].x = c.evs[i].x
                      /\ Cardinality(CallsIn(c.evs, "free", "holes"))
                            = Cardinality(AcquiredIn(c.evs, "calloc", "holes"))

C13_Witness ==
    \E t \in Threads :
        /\ Returned(t) /\ th[t].m = "polygonToCells"
        /\ CreateGeoPolygon(th[t].in).err = E_MEMORY_ALLOC
        /\ Pins(t, "verts") # {} /\ Pins(t, "holeSizes") # {}
        /\ \E i \in At(t, "Get") : Log(t)[i].arr = "holeVerts" /\ Log(t)[i].x = NULL
        /\ Releases(t, "holeSizes") # {} /\ At(t, "free") # {}
        /\ th[t].pending = [kind |-> "OutOfMemoryError", code |-> 0, by |-> "code"]

(***************************************************************************)
(* C14. After a successful CreateGeoPolygon with numHoles > 0, holeSizes   *)
(* has been released and holeVerts is still pinned; the rest of the call   *)
(* (DestroyGeoPolygon) releases verts once, releases holeVerts once with   *)
(* the pointer its pin returned, and frees holes once.  With numHoles = 0  *)
(* holeSizes and holeVerts are never pinned, and holeVerts and holes are   *)
(* never released, allocated or freed.                                     *)
(***************************************************************************)
C14_HolesLifetime ==
    \A t \in Threads :
        (Returned(t) /\ th[t].m \in PolygonMethods
                     /\ CreateGeoPolygon(th[t].in).err = E_SUCCESS) =>
            LET c == CreateGeoPolygon(th[t].in)
                rest == SubSeq(Log(t), Len(c.evs) + 1, Len(Log(t)))
            IN  IF c.polygon.numHoles > 0
                THEN /\ Cardinality(AcquiredIn(c.evs, "Get", "holeSizes")) = 1
                     /\ Cardinality(CallsIn(c.evs, "Release", "holeSizes")) = 1
                     /\ Cardinality(AcquiredIn(c.evs, "Get", "holeVerts")) = 1
                     /\ CallsIn(c.evs, "Release", "holeVerts") = {}
                     /\ CallsIn(c.evs, "Release", "verts") = {}
                     /\ CallsIn(c.evs, "free", "holes") = {}
                     /\ Cardinality(CallsIn(rest, "Release", "verts")) = 1
                     /\ Cardinality(CallsIn(rest, "Release", "holeVerts")) = 1
                     /\ \A i \in CallsIn(rest, "Release", "holeVerts") :
                           /\ rest[i].x = c.polygon.holes[1].verts
                           /\ \A j \in AcquiredIn(c.evs, "Get", "holeVerts") :
                                 rest[i].x = c.evs[j].x
                     /\ Cardinality(CallsIn(rest, "free", "holes")) = 1
                     /\ CallsIn(rest, "Release", "holeSizes") = {}
                ELSE /\ \A arr \in {"holeSizes", "holeVerts"} :
                           /\ CallsIn(Log(t), "Get", arr) = {}
                           /\ CallsIn(Log(t), "Release", arr) = {}
                     /\ CallsIn(Log(t), "calloc", "holes") = {}
                     /\ CallsIn(Log(t), "free", "holes") = {}
                     /\ Cardinality(CallsIn(rest, "Release", "verts")) = 1

C14_Witness ==
    \E t \in Threads :
        /\ Returned(t) /\ th[t].m = "polygonToCells"
        /\ CreateGeoPolygon(th[t].in).err = E_SUCCESS
        /\ Len(th[t].in.holes) > 1
        /\ CreateGeoPolygon(th[t].in).polygon.holes[2].verts > 0
        /\ \E i \in Releases(t, "holeVerts") : Log(t)[i].x = 0
        /\ At(t, "free") # {}

(***************************************************************************)
(* C15. In the four polygon methods: when CreateGeoPolygon fails the       *)
(* method makes no further call (no engine call, no DestroyGeoPolygon);    *)
(* when it succeeds the calls of DestroyGeoPolygon appear exactly once,    *)
(* after the engine call if one is made and before any ThrowH3Exception,   *)
(* also when the pin of results fails.                                     *)
(***************************************************************************)
\* The positions in evs at which the calls of DestroyGeoPolygon start.
DestroyedAt(evs, polygon) ==
    LET d == DestroyGeoPolygon(polygon)
    IN  {i \in 1..(Len(evs) - Len(d) + 1) : SubSeq(evs, i, i + Len(d) - 1) = d}

C15_DestroyOrdering ==
    \A t \in Threads :
        (Returned(t) /\ th[t].m \in PolygonMethods) =>
            LET c == CreateGeoPolygon(th[t].in)
                d == DestroyGeoPolygon(c.polygon)
                rest == SubSeq(Log(t), Len(c.evs) + 1, Len(Log(t)))
            IN  IF c.err # E_SUCCESS
                THEN rest = <<>> /\ At(t, "Engine") = {}
                ELSE /\ Cardinality(DestroyedAt(rest, c.polygon)) = 1
                     /\ Cardinality(CallsIn(rest, "Release", "verts")) = 1
                     /\ \A i \in DestroyedAt(rest, c.polygon) :
                           /\ \A j \in 1..Len(rest) :
                                 rest[j].op \in {"Engine", "Get"} => j < i
                           /\ \A j \in 1..Len(rest) :
                                 rest[j].op = "ThrowH3Exception" => j >= i + Len(d)

C15_Witness ==
    \E t \in Threads :
        /\ Returned(t) /\ th[t].m = "polygonToCellsExperimental"
        /\ CreateGeoPolygon(th[t].in).err = E_SUCCESS
        /\ th[t].in.holes # <<>>
        /\ \E i \in At(t, "Get") : Log(t)[i].arr = "results" /\ Log(t)[i].x = NULL
        /\ At(t, "Engine") = {}
        /\ Releases(t, "verts") # {} /\ Releases(t, "holeVerts") # {}
        /\ At(t, "free") # {}

(***************************************************************************)
(* C16. Every Release*ArrayElements is passed a pointer that is not NULL   *)
(* and that a successful Get*ArrayElements on the same array returned      *)
(* earlier in the same call.                                               *)
(***************************************************************************)
C16_ReleaseOnlyPinned ==
    \A t \in Threads :
        Returned(t) =>
            \A i \in At(t, "Release") :
                /\ Log(t)[i].x # NULL
                /\ \E j \in Pins(t, Log(t)[i].arr) :
                      j < i /\ Log(t)[j].x = Log(t)[i].x

Throws(t) == At(t, "ThrowOutOfMemoryError") \cup At(t, "ThrowH3Exception")

\* The call the thread makes next.
NextCall(t) == Path(th[t].m, th[t].in)[th[t].pc]

AboutToCall(t, op) ==
    /\ th[t].st = "running"
    /\ th[t].pc <= Len(Path(th[t].m, th[t].in))
    /\ NextCall(t).op = op

C18_AtMostOneException ==
    \A t \in Threads :
        /\ th[t].st \in {"running", "returned"} => Cardinality(Throws(t)) <= 1
        /\ AboutToCall(t, "ThrowH3Exception") => th[t].pending = NoException

C18_Witness ==
    \E t \in Threads :
        /\ Returned(t) /\ th[t].m = "polygonToCells"
        /\ th[t].in.err # E_SUCCESS
        /\ CreateGeoPolygon(th[t].in).err = E_SUCCESS
        /\ At(t, "ThrowOutOfMemoryError") # {}
        /\ At(t, "ThrowH3Exception") = {}
        /\ th[t].pending = [kind |-> "OutOfMemoryError", code |-> 0, by |-> "code"]

(***************************************************************************)
(* C19. cellsToLinkedMultiPolygon calls destroyLinkedMultiPolygon exactly  *)
(* once when the engine call succeeded, after the conversion, also when    *)
(* the conversion stopped early; never when the engine returned an error;  *)
(* in both cases the pinned h3 array is released exactly once.             *)
(***************************************************************************)
ConversionCalls(t) == At(t, "NewObject") \cup At(t, "CallBooleanMethod")

C19_LinkedPolygonDestroyed ==
    \A t \in Threads :
        (Returned(t) /\ th[t].m = "cellsToLinkedMultiPolygon") =>
            /\ \A i \in At(t, "Engine") :
                  /\ Cardinality(Pins(t, "h3")) = 1
                  /\ Cardinality(Releases(t, "h3")) = 1
                  /\ \A r \in Releases(t, "h3") :
                        r > i /\ \A p \in Pins(t, "h3") : Log(t)[r].x = Log(t)[p].x
                  /\ IF Log(t)[i].x = E_SUCCESS
                     THEN /\ Cardinality(At(t, "destroyLinkedMultiPolygon")) = 1
                          /\ \A d \in At(t, "destroyLinkedMultiPolygon") :
                                /\ d > i
                                /\ \A c \in ConversionCalls(t) : i < c /\ c < d
                     ELSE /\ At(t, "destroyLinkedMultiPolygon") = {}
                          /\ ConversionCalls(t) = {}
            /\ At(t, "Engine") = {} =>
                  /\ At(t, "destroyLinkedMultiPolygon") = {}
                  /\ Releases(t, "h3") = {}

C19_Witness ==
    \E t \in Threads :
        /\ Returned(t) /\ th[t].m = "cellsToLinkedMultiPolygon"
        /\ \E e \in EngineEvents(t) : e.x = E_SUCCESS
        /\ \E c \in ConversionCalls(t) :
              Log(t)[c].op = "CallBooleanMethod" /\ Log(t)[c].x = NULL
        /\ ExceptionPending(t)
        /\ At(t, "destroyLinkedMultiPolygon") # {}
        /\ Releases(t, "h3") # {}

(***************************************************************************)
(* C20. ConvertLinkedGeoPolygonToManaged preserves structure and order:    *)
(* when no allocation fails and no exception arises, results receives, in  *)
(* order, one list per polygon that has a loop; each holds one list per    *)
(* loop in order, each of those one LatLng per coordinate in order, built  *)
(* from the coordinate's lat and lng; a polygon without loops adds         *)
(* nothing.                                                                *)
(***************************************************************************)
\* What the calls of a conversion leave in results: add appends its argument
\* (the object last assigned to v, resultLoop or resultLoops) to the list.
RECURSIVE Managed(_, _, _, _, _)
Managed(evs, results, resultLoops, resultLoop, v) ==
    IF evs = <<>> THEN results
    ELSE LET e == Head(evs)
             rest == Tail(evs)
         IN  CASE e.op = "NewObject" /\ e.arr = "resultLoops" ->
                    Managed(rest, results, <<>>, resultLoop, v)
               [] e.op = "NewObject" /\ e.arr = "resultLoop" ->
                    Managed(rest, results, resultLoops, <<>>, v)
               [] e.op = "NewObject" /\ e.arr = "v" ->
                    Managed(rest, results, resultLoops, resultLoop,
                            CHOOSE c \in e.out : TRUE)
               [] e.op = "CallBooleanMethod" /\ e.arr = "resultLoop" ->
                    Managed(rest, results, resultLoops, Append(resultLoop, v), v)
               [] e.op = "CallBooleanMethod" /\ e.arr = "resultLoops" ->
                    Managed(rest, results, Append(resultLoops, resultLoop),
                            resultLoop, v)
               [] e.op = "CallBooleanMethod" /\ e.arr = "results" ->
                    Managed(rest, Append(results, resultLoops), resultLoops,
                            resultLoop, v)
               [] OTHER -> Managed(rest, results, resultLoops, resultLoop, v)

HasLoops(polygon) == polygon # <<>>

C20_ConversionPreservesOrder ==
    \A t \in Threads :
        (Returned(t) /\ th[t].m = "cellsToLinkedMultiPolygon"
                     /\ ConversionCalls(t) # {}
                     /\ \A c \in ConversionCalls(t) : Log(t)[c].x # NULL
                     /\ ~ExceptionPending(t)) =>
            Managed(Log(t), <<>>, <<>>, <<>>, <<>>)
                = SelectSeq(th[t].in.poly, HasLoops)

C20_Witness ==
    \E t \in Threads :
        /\ Returned(t) /\ th[t].m = "cellsToLinkedMultiPolygon"
        /\ ~ExceptionPending(t)
        /\ Len(th[t].in.poly) > 2
        /\ th[t].in.poly[1] = <<>>
        /\ Len(Managed(Log(t), <<>>, <<>>, <<>>, <<>>)) = 2
        /\ Managed(Log(t), <<>>, <<>>, <<>>, <<>>)[2] = << <<<<1, 2>>>>, Loop3(4)>>

(***************************************************************************)
(* C21. CreateGeoPolygon lays the polygon out from the flat arrays: the    *)
(* outer loop has length(verts) / 2 vertices; numHoles is the length of    *)
(* holeSizes; hole i has holeSizes[i] / 2 vertices and starts at the sum   *)
(* of the sizes of the holes before it, counted in doubles from the start  *)
(* of holeVerts.  The holes' slices therefore follow one another in input  *)
(* order and do not overlap.  (Sizes are element counts: 0 or more.)       *)
(***************************************************************************)
RECURSIVE SumOfSizes(_)
SumOfSizes(sizes) ==
    IF sizes = <<>> THEN 0 ELSE Head(sizes) + SumOfSizes(Tail(sizes))

\* The doubles of holeVerts that hole h covers.
Slice(h) == Range(h.verts, h.verts + 2 * h.numVerts - 1)

C21_PolygonLayout ==
    \A t \in Threads :
        (Returned(t) /\ th[t].m \in PolygonMethods
                     /\ CreateGeoPolygon(th[t].in).err = E_SUCCESS) =>
            LET in == th[t].in
                polygon == CreateGeoPolygon(in).polygon
            IN  /\ 2 * polygon.numVerts <= in.len2
                /\ in.len2 <= 2 * polygon.numVerts + 1
                /\ polygon.numHoles = Len(in.holes)
                /\ Len(polygon.holes) = polygon.numHoles
                /\ \A i \in 1..polygon.numHoles :
                      /\ 2 * polygon.holes[i].numVerts <= in.holes[i]
                      /\ in.holes[i] <= 2 * polygon.holes[i].numVerts + 1
                      /\ polygon.holes[i].verts = SumOfSizes(SubSeq(in.holes, 1, i - 1))
                /\ \A i \in 1..(polygon.numHoles - 1) :
                      polygon.holes[i + 1].verts = polygon.holes[i].verts + in.holes[i]
                /\ \A i, j \in 1..polygon.numHoles :
                      i < j =>
                         /\ Slice(polygon.holes[i]) \cap Slice(polygon.holes[j]) = {}
                         /\ \A a \in Slice(polygon.holes[i]) :
                               \A b \in Slice(polygon.holes[j]) : a < b

C21_Witness ==
    \E t \in Threads :
        /\ Returned(t) /\ th[t].m = "polygonToCells"
        /\ CreateGeoPolygon(th[t].in).err = E_SUCCESS
        /\ At(t, "Engine") # {}
        /\ th[t].in.holes = <<4, 0, 5>>
        /\ CreateGeoPolygon(th[t].in).polygon.holes[3] = [numVerts |-> 2, verts |-> 4]
        /\ CreateGeoPolygon(th[t].in).polygon.numVerts = 3
        /\ th[t].in.len2 = 7

(***************************************************************************)
(* C22. For every holeSizes and holeVerts, each hole's range of doubles,   *)
(* from its start offset up to start offset + 2 * numVerts, lies within    *)
(* 0..length(holeVerts), so that the engine, when it is called, reads no   *)
(* hole coordinate outside the pinned array.                               *)
(***************************************************************************)
C22_HolesWithinHoleVerts ==
    \A t \in Threads :
        (Returned(t) /\ th[t].m \in PolygonMethods /\ At(t, "Engine") # {}) =>
            LET polygon == CreateGeoPolygon(th[t].in).polygon
            IN  \A i \in 1..polygon.numHoles :
                    /\ 0 <= polygon.holes[i].verts
                    /\ polygon.holes[i].verts + 2 * polygon.holes[i].numVerts
                          <= th[t].in.hvLen

====
